---- MODULE Spec2Model ----
(***************************************************************************)
(* Model of GamePage (src/src/app/pages/game/game.page.ts): a 3x3 board    *)
(* game in which each player places three pieces and then moves them.      *)
(* The component's fields are the variables; every method is an operator   *)
(* from a component state (a record of the fields) to the state the method *)
(* leaves behind, and every public entry point is an action.               *)
(* Two history variables, op and pre, record the last call and the state   *)
(* it was made in, so that "this call changes nothing" is a state          *)
(* predicate.  A third, clicksOnly, tells whether every call made so far    *)
(* was onCellClick or resetGame, the two calls of the page's template.     *)
(***************************************************************************)
EXTENDS Integers, Sequences, FiniteSets, TLC

VARIABLES board, xPlayer, oPlayer, currentPlayer, winner, message,
          selectedCell, op, pre, clicksOnly

vars == <<board, xPlayer, oPlayer, currentPlayer, winner, message,
          selectedCell, op, pre, clicksOnly>>

\* Row and column indices of the board.
Idx == 0..2

\* The number of pieces each player places before the movement phase.
MaxPieces == 3

\* new Cell(value)
Cell(value) == [value |-> value]

\* new Player(symbol, count)
Player(symbol, count) == [symbol |-> symbol, count |-> count]

\* selectedCell = null (a coordinate outside the board stands for null)
null == [row |-> -1, col |-> -1]

\* The board literal of the field initialiser and of resetGame.
EmptyBoard == [r \in Idx |-> [c \in Idx |-> Cell("")]]

\* The component's fields as one record.
State ==
  [board |-> board, xPlayer |-> xPlayer, oPlayer |-> oPlayer,
   currentPlayer |-> currentPlayer, winner |-> winner, message |-> message,
   selectedCell |-> selectedCell]

\* The field initialisers.
InitState ==
  [board |-> EmptyBoard, xPlayer |-> Player("X", 0), oPlayer |-> Player("O", 0),
   currentPlayer |-> "xPlayer", winner |-> "", message |-> "",
   selectedCell |-> null]

\* this.currentPlayer dereferenced: the Player object the reference names.
cur(s) == IF s.currentPlayer = "xPlayer" THEN s.xPlayer ELSE s.oPlayer

\* Mutant of incCount: the increment goes to xPlayer whoever is playing.
incCount_alwaysX(s) == [s EXCEPT !.xPlayer.count = @ + 1]

\* this.currentPlayer.count++ (through the reference, so it changes the
\* aliased xPlayer or oPlayer object).
incCount(s) ==
  IF s.currentPlayer = "xPlayer"
  THEN [s EXCEPT !.xPlayer.count = @ + 1]
  ELSE [s EXCEPT !.oPlayer.count = @ + 1]

\* Mutant of getLines: the second diagonal ends at [2][2] instead of [2][0].
getLines_badDiagonal(s) ==
  << <<s.board[0][0].value, s.board[0][1].value, s.board[0][2].value>>,
     <<s.board[1][0].value, s.board[1][1].value, s.board[1][2].value>>,
     <<s.board[2][0].value, s.board[2][1].value, s.board[2][2].value>>,
     <<s.board[0][0].value, s.board[1][0].value, s.board[2][0].value>>,
     <<s.board[0][1].value, s.board[1][1].value, s.board[2][1].value>>,
     <<s.board[0][2].value, s.board[1][2].value, s.board[2][2].value>>,
     <<s.board[0][0].value, s.board[1][1].value, s.board[2][2].value>>,
     <<s.board[0][2].value, s.board[1][1].value, s.board[2][2].value>> >>

\* getLines(): rows, then columns, then diagonals.
getLines(s) ==
  << <<s.board[0][0].value, s.board[0][1].value, s.board[0][2].value>>,
     <<s.board[1][0].value, s.board[1][1].value, s.board[1][2].value>>,
     <<s.board[2][0].value, s.board[2][1].value, s.board[2][2].value>>,
     <<s.board[0][0].value, s.board[1][0].value, s.board[2][0].value>>,
     <<s.board[0][1].value, s.board[1][1].value, s.board[2][1].value>>,
     <<s.board[0][2].value, s.board[1][2].value, s.board[2][2].value>>,
     <<s.board[0][0].value, s.board[1][1].value, s.board[2][2].value>>,
     <<s.board[0][2].value, s.board[1][1].value, s.board[2][0].value>> >>

\* The test of one line in checkWinner's loop.
lineWins(line) ==
  line[1] # "" /\ line[1] = line[2] /\ line[2] = line[3]

\* The template literal `Player ${this.winner} wins!`.
winMessage(w) == "Player " \o w \o " wins!"

\* The for-of loop of checkWinner from the i-th line on: the first winning
\* line sets winner and message and returns.
RECURSIVE scanLines(_, _, _)
scanLines(s, lines, i) ==
  IF i > Len(lines) THEN s
  ELSE IF lineWins(lines[i])
       THEN [s EXCEPT !.winner = lines[i][1],
                      !.message = winMessage(lines[i][1])]
       ELSE scanLines(s, lines, i + 1)

\* Mutant of checkWinner: the commented-out turn message of line 190 is set
\* when no line wins.
checkWinner_turnMessage(s) ==
  LET s1 == scanLines(s, getLines(s), 1)
  IN  IF \E i \in 1..8 : lineWins(getLines(s)[i])
      THEN s1
      ELSE [s1 EXCEPT !.message = "It's " \o cur(s).symbol \o "'s turn."]

\* checkWinner()
checkWinner(s) == scanLines(s, getLines(s), 1)

\* Mutant of switchPlayer: the two branches of the conditional are swapped.
switchPlayer_swapped(s) ==
  [s EXCEPT !.currentPlayer =
     IF cur(s).symbol = "X" THEN "xPlayer" ELSE "oPlayer"]

\* switchPlayer()
switchPlayer(s) ==
  [s EXCEPT !.currentPlayer =
     IF cur(s).symbol = "X" THEN "oPlayer" ELSE "xPlayer"]

\* Mutant of handlePlace: the test of the player's count is missing.
handlePlace_noCountCheck(s, rowIndex, colIndex) ==
  IF s.board[rowIndex][colIndex].value # "" THEN s
  ELSE LET symbol == cur(s).symbol
           s1 == [s EXCEPT !.board[rowIndex][colIndex].value = symbol]
           s2 == incCount(s1)
           s3 == checkWinner(s2)
       IN  IF s3.winner = "" THEN switchPlayer(s3) ELSE s3

\* Mutant of handlePlace: the test for an occupied cell is missing.
handlePlace_noOccupiedCheck(s, rowIndex, colIndex) ==
  LET symbol == cur(s).symbol IN
  IF cur(s).count < MaxPieces
  THEN LET s1 == [s EXCEPT !.board[rowIndex][colIndex].value = symbol]
           s2 == incCount(s1)
           s3 == checkWinner(s2)
       IN  IF s3.winner = "" THEN switchPlayer(s3) ELSE s3
  ELSE s

\* Mutant of handlePlace: the player is switched whether or not there is a
\* winner.
handlePlace_alwaysSwitch(s, rowIndex, colIndex) ==
  IF s.board[rowIndex][colIndex].value # "" THEN s
  ELSE LET symbol == cur(s).symbol IN
       IF cur(s).count < MaxPieces
       THEN LET s1 == [s EXCEPT !.board[rowIndex][colIndex].value = symbol]
                s2 == incCount(s1)
                s3 == checkWinner(s2)
            IN  switchPlayer(s3)
       ELSE s

\* Mutant of handlePlace: checkWinner is not called after the placement.
handlePlace_noWinCheck(s, rowIndex, colIndex) ==
  IF s.board[rowIndex][colIndex].value # "" THEN s
  ELSE LET symbol == cur(s).symbol IN
       IF cur(s).count < MaxPieces
       THEN LET s1 == [s EXCEPT !.board[rowIndex][colIndex].value = symbol]
                s2 == incCount(s1)
            IN  IF s2.winner = "" THEN switchPlayer(s2) ELSE s2
       ELSE s

\* handlePlace(rowIndex, colIndex)
handlePlace(s, rowIndex, colIndex) ==
  IF s.board[rowIndex][colIndex].value # "" THEN s
  ELSE LET symbol == cur(s).symbol IN
       IF cur(s).count < MaxPieces
       THEN LET s1 == [s EXCEPT !.board[rowIndex][colIndex].value = symbol]
                s2 == incCount(s1)
                s3 == checkWinner(s2)
            IN  IF s3.winner = "" THEN switchPlayer(s3) ELSE s3
       ELSE s

\* Mutant of handleMove: the cell the piece leaves is not emptied.
handleMove_noClear(s, rowIndex, colIndex) ==
  LET row == s.selectedCell.row
      col == s.selectedCell.col
  IN  IF /\ s.board[rowIndex][colIndex].value = cur(s).symbol
         /\ (rowIndex # row \/ colIndex # col)
      THEN [s EXCEPT !.selectedCell = [row |-> rowIndex, col |-> colIndex]]
      ELSE IF s.board[rowIndex][colIndex].value = ""
           THEN LET s1 == [s EXCEPT !.board[rowIndex][colIndex].value =
                                       s.board[row][col].value]
                    s3 == [s1 EXCEPT !.selectedCell = null]
                    s4 == checkWinner(s3)
                IN  IF s4.winner = "" THEN switchPlayer(s4) ELSE s4
           ELSE s

\* Mutant of handleMove: the selection is not cleared after the move.
handleMove_keepSelection(s, rowIndex, colIndex) ==
  LET row == s.selectedCell.row
      col == s.selectedCell.col
  IN  IF /\ s.board[rowIndex][colIndex].value = cur(s).symbol
         /\ (rowIndex # row \/ colIndex # col)
      THEN [s EXCEPT !.selectedCell = [row |-> rowIndex, col |-> colIndex]]
      ELSE IF s.board[rowIndex][colIndex].value = ""
           THEN LET s1 == [s EXCEPT !.board[rowIndex][colIndex].value =
                                       s.board[row][col].value]
                    s2 == [s1 EXCEPT !.board[row][col].value = ""]
                    s4 == checkWinner(s2)
                IN  IF s4.winner = "" THEN switchPlayer(s4) ELSE s4
           ELSE s

\* Mutant of handleMove: a move is counted as a placement.
handleMove_countsMove(s, rowIndex, colIndex) ==
  LET row == s.selectedCell.row
      col == s.selectedCell.col
  IN  IF /\ s.board[rowIndex][colIndex].value = cur(s).symbol
         /\ (rowIndex # row \/ colIndex # col)
      THEN [s EXCEPT !.selectedCell = [row |-> rowIndex, col |-> colIndex]]
      ELSE IF s.board[rowIndex][colIndex].value = ""
           THEN LET s1 == [s EXCEPT !.board[rowIndex][colIndex].value =
                                       s.board[row][col].value]
                    s2 == [s1 EXCEPT !.board[row][col].value = ""]
                    s3 == incCount([s2 EXCEPT !.selectedCell = null])
                    s4 == checkWinner(s3)
                IN  IF s4.winner = "" THEN switchPlayer(s4) ELSE s4
           ELSE s

\* Mutant of handleMove: checkWinner is not called after the move.
handleMove_noWinCheck(s, rowIndex, colIndex) ==
  LET row == s.selectedCell.row
      col == s.selectedCell.col
  IN  IF /\ s.board[rowIndex][colIndex].value = cur(s).symbol
         /\ (rowIndex # row \/ colIndex # col)
      THEN [s EXCEPT !.selectedCell = [row |-> rowIndex, col |-> colIndex]]
      ELSE IF s.board[rowIndex][colIndex].value = ""
           THEN LET s1 == [s EXCEPT !.board[rowIndex][colIndex].value =
                                       s.board[row][col].value]
                    s2 == [s1 EXCEPT !.board[row][col].value = ""]
                    s3 == [s2 EXCEPT !.selectedCell = null]
                IN  IF s3.winner = "" THEN switchPlayer(s3) ELSE s3
           ELSE s

\* Mutant of handleMove: the reselection branch is missing.
handleMove_noReselect(s, rowIndex, colIndex) ==
  LET row == s.selectedCell.row
      col == s.selectedCell.col
  IN  IF s.board[rowIndex][colIndex].value = ""
      THEN LET s1 == [s EXCEPT !.board[rowIndex][colIndex].value =
                                  s.board[row][col].value]
               s2 == [s1 EXCEPT !.board[row][col].value = ""]
               s3 == [s2 EXCEPT !.selectedCell = null]
               s4 == checkWinner(s3)
           IN  IF s4.winner = "" THEN switchPlayer(s4) ELSE s4
      ELSE s

\* handleMove(rowIndex, colIndex); the caller guarantees a selected cell.
handleMove(s, rowIndex, colIndex) ==
  LET row == s.selectedCell.row
      col == s.selectedCell.col
  IN  IF /\ s.board[rowIndex][colIndex].value = cur(s).symbol
         /\ (rowIndex # row \/ colIndex # col)
      THEN [s EXCEPT !.selectedCell = [row |-> rowIndex, col |-> colIndex]]
      ELSE IF s.board[rowIndex][colIndex].value = ""
           THEN LET s1 == [s EXCEPT !.board[rowIndex][colIndex].value =
                                       s.board[row][col].value]
                    s2 == [s1 EXCEPT !.board[row][col].value = ""]
                    s3 == [s2 EXCEPT !.selectedCell = null]
                    s4 == checkWinner(s3)
                IN  IF s4.winner = "" THEN switchPlayer(s4) ELSE s4
           ELSE s

\* Mutant of onSelectPiece: row and column are stored the wrong way round.
onSelectPiece_transposed(s, rowIndex, colIndex) ==
  IF s.board[rowIndex][colIndex].value = cur(s).symbol
  THEN [s EXCEPT !.selectedCell = [row |-> colIndex, col |-> rowIndex]]
  ELSE s

\* Mutant of onSelectPiece: any occupied cell can be selected.
onSelectPiece_anyPiece(s, rowIndex, colIndex) ==
  IF s.board[rowIndex][colIndex].value # ""
  THEN [s EXCEPT !.selectedCell = [row |-> rowIndex, col |-> colIndex]]
  ELSE s

\* onSelectPiece(rowIndex, colIndex)
onSelectPiece(s, rowIndex, colIndex) ==
  IF s.board[rowIndex][colIndex].value = cur(s).symbol
  THEN [s EXCEPT !.selectedCell = [row |-> rowIndex, col |-> colIndex]]
  ELSE s

\* Mutant of onCellClick: clicks are not ignored after a win.
onCellClick_noWinnerGuard(s, rowIndex, colIndex) ==
  IF s.selectedCell # null THEN handleMove(s, rowIndex, colIndex)
  ELSE IF cur(s).count >= MaxPieces THEN onSelectPiece(s, rowIndex, colIndex)
  ELSE handlePlace(s, rowIndex, colIndex)

\* Mutant of onCellClick: the movement phase starts one piece early.
onCellClick_earlyMove(s, rowIndex, colIndex) ==
  IF s.winner # "" THEN s
  ELSE IF s.selectedCell # null THEN handleMove(s, rowIndex, colIndex)
  ELSE IF cur(s).count >= MaxPieces - 1
       THEN onSelectPiece(s, rowIndex, colIndex)
  ELSE handlePlace(s, rowIndex, colIndex)

\* Mutant of onCellClick: the count is compared with > instead of >=.
onCellClick_strictThreshold(s, rowIndex, colIndex) ==
  IF s.winner # "" THEN s
  ELSE IF s.selectedCell # null THEN handleMove(s, rowIndex, colIndex)
  ELSE IF cur(s).count > MaxPieces THEN onSelectPiece(s, rowIndex, colIndex)
  ELSE handlePlace(s, rowIndex, colIndex)

\* onCellClick(rowIndex, colIndex)
onCellClick(s, rowIndex, colIndex) ==
  IF s.winner # "" THEN s
  ELSE IF s.selectedCell # null THEN handleMove(s, rowIndex, colIndex)
  ELSE IF cur(s).count >= MaxPieces THEN onSelectPiece(s, rowIndex, colIndex)
  ELSE handlePlace(s, rowIndex, colIndex)

\* Mutant of resetGame: the selection is not cleared.
resetGame_keepSelection(s) ==
  [s EXCEPT !.board = EmptyBoard,
            !.xPlayer.count = 0,
            !.oPlayer.count = 0,
            !.currentPlayer = "xPlayer",
            !.winner = "",
            !.message = ""]

\* Mutant of resetGame: the placed-counts are not zeroed.
resetGame_keepCounts(s) ==
  [s EXCEPT !.board = EmptyBoard,
            !.currentPlayer = "xPlayer",
            !.winner = "",
            !.message = "",
            !.selectedCell = null]

\* resetGame()
resetGame(s) ==
  [s EXCEPT !.board = EmptyBoard,
            !.xPlayer.count = 0,
            !.oPlayer.count = 0,
            !.currentPlayer = "xPlayer",
            !.winner = "",
            !.message = "",
            !.selectedCell = null]

\* The fields after a call that leaves the component in state s.
Becomes(s) ==
  /\ board' = s.board
  /\ xPlayer' = s.xPlayer
  /\ oPlayer' = s.oPlayer
  /\ currentPlayer' = s.currentPlayer
  /\ winner' = s.winner
  /\ message' = s.message
  /\ selectedCell' = s.selectedCell

\* The record of a call.
Call(name, row, col) == [name |-> name, row |-> row, col |-> col]

Init ==
  /\ board = InitState.board
  /\ xPlayer = InitState.xPlayer
  /\ oPlayer = InitState.oPlayer
  /\ currentPlayer = InitState.currentPlayer
  /\ winner = InitState.winner
  /\ message = InitState.message
  /\ selectedCell = InitState.selectedCell
  /\ op = Call("new", -1, -1)
  /\ pre = InitState
  /\ clicksOnly = TRUE

\* The user clicks a cell: the template calls onCellClick(r, c).
OnCellClick ==
  \E r \in Idx, c \in Idx :
    /\ Becomes(onCellClick(State, r, c))
    /\ op' = Call("onCellClick", r, c)
    /\ pre' = State
    /\ UNCHANGED clicksOnly

\* The user presses the reset button: the template calls resetGame().
ResetGame ==
  /\ Becomes(resetGame(State))
  /\ op' = Call("resetGame", -1, -1)
  /\ pre' = State
  /\ UNCHANGED clicksOnly

\* onSelectPiece(r, c) called on its own: the method is public ("useful if
\* you have a separate Select button"), so it is an entry point next to
\* onCellClick and is then not behind onCellClick's guards.
OnSelectPiece ==
  \E r \in Idx, c \in Idx :
    /\ Becomes(onSelectPiece(State, r, c))
    /\ op' = Call("onSelectPiece", r, c)
    /\ pre' = State
    /\ clicksOnly' = FALSE

Next == OnCellClick \/ ResetGame \/ OnSelectPiece

Spec == Init /\ [][Next]_vars

TypeOK ==
  /\ board \in [Idx -> [Idx -> [value : {"", "X", "O"}]]]
  /\ xPlayer \in [symbol : {"X"}, count : Nat]
  /\ oPlayer \in [symbol : {"O"}, count : Nat]
  /\ currentPlayer \in {"xPlayer", "oPlayer"}
  /\ winner \in {"", "X", "O"}
  /\ selectedCell \in [row : Idx, col : Idx] \cup {null}
  /\ clicksOnly \in BOOLEAN
(***************************************************************************)
(* Vocabulary of the properties.                                           *)
(***************************************************************************)

\* The last call was onCellClick.
Clicked == op.name = "onCellClick"

\* The value the clicked cell held when the last call was made.
TargetBefore == pre.board[op.row][op.col].value

\* The number of cells of board b that hold v.
CountOn(b, v) ==
  Cardinality({p \in Idx \X Idx : b[p[1]][p[2]].value = v})

\* The 8 lines of the board as sets of coordinates.
Lines ==
  {{<<r, c>> : c \in Idx} : r \in Idx} \cup
  {{<<r, c>> : r \in Idx} : c \in Idx} \cup
  {{<<i, i>> : i \in Idx}, {<<i, 2 - i>> : i \in Idx}}

\* Some line of board b holds v in all three cells.
HasLine(b, v) == \E L \in Lines : \A p \in L : b[p[1]][p[2]].value = v

(***************************************************************************)
(* Properties.                                                             *)
(***************************************************************************)

\* C1: once a winner is set, onCellClick on any cell changes nothing: board,
\* both counts, active player, winner, message and selection stay as they
\* were, so the winner stays set until resetGame.
C1_ClickAfterWinIsNoOp ==
  /\ (Clicked /\ pre.winner # "") => State = pre
  /\ (op.name = "onSelectPiece" /\ pre.winner # "")
       => (winner = pre.winner /\ board = pre.board)

\* A cell was clicked after a win.
C1_Witness ==
  Clicked /\ pre.winner # "" /\ TargetBefore = ""

\* C2: each player's placed-count is in 0..3 and the two counts sum to at
\* most 6; the placement handler itself, run in any reachable state, never
\* takes a count above 3.
C2_CountsBounded ==
  /\ xPlayer.count \in 0..3
  /\ oPlayer.count \in 0..3
  /\ xPlayer.count + oPlayer.count <= 6
  /\ \A r \in Idx, c \in Idx :
       /\ handlePlace(State, r, c).xPlayer.count <= 3
       /\ handlePlace(State, r, c).oPlayer.count <= 3

\* The sixth piece has just been placed.
C2_Witness ==
  /\ Clicked /\ pre.oPlayer.count = 2
  /\ xPlayer.count = 3 /\ oPlayer.count = 3

\* C3: with no winner, no selection and the active player's count below 3,
\* a click on an empty cell puts the active player's symbol in that cell and
\* in no other, adds 1 to the active player's count and leaves the other
\* player's count alone.
C3_PlacementEffect ==
  (Clicked /\ pre.winner = "" /\ pre.selectedCell = null
     /\ cur(pre).count < 3 /\ TargetBefore = "")
  => /\ board = [pre.board EXCEPT ![op.row][op.col].value = cur(pre).symbol]
     /\ IF pre.currentPlayer = "xPlayer"
        THEN /\ xPlayer.count = pre.xPlayer.count + 1
             /\ oPlayer.count = pre.oPlayer.count
        ELSE /\ oPlayer.count = pre.oPlayer.count + 1
             /\ xPlayer.count = pre.xPlayer.count

\* O placed a piece on an empty cell.
C3_Witness ==
  /\ Clicked /\ pre.winner = "" /\ pre.selectedCell = null
  /\ cur(pre).count < 3 /\ TargetBefore = ""
  /\ pre.currentPlayer = "oPlayer"

\* C4: placement on an occupied cell changes nothing: in every reachable
\* state, whatever the active player's count, handlePlace on an occupied cell
\* returns the state it was given, and so does onCellClick on an occupied cell while the
\* active player's count is below 3 and no cell is selected.
C4_OccupiedPlacementRejected ==
  /\ \A r \in Idx, c \in Idx :
       board[r][c].value # "" => handlePlace(State, r, c) = State
  /\ (Clicked /\ TargetBefore # "" /\ cur(pre).count < 3
        /\ pre.selectedCell = null) => State = pre

\* The active player, still placing, clicked a cell of the opponent.
C4_Witness ==
  /\ Clicked /\ cur(pre).count < 3 /\ pre.selectedCell = null
  /\ pre.winner = ""
  /\ TargetBefore \notin {"", cur(pre).symbol}

\* C5: winner is s exactly when some of the 8 lines of the board holds s in
\* all three cells, and winner is empty exactly when no line is uniformly
\* non-empty.
C5_WinDetectionExact ==
  /\ Cardinality(Lines) = 8
  /\ \A s \in {"X", "O"} : winner = s <=> HasLine(board, s)
  /\ winner = "" <=> ~ \E s \in {"X", "O"} : HasLine(board, s)

\* O has won on the second diagonal.
C5_Witness ==
  /\ winner = "O"
  /\ \A i \in Idx : board[i][2 - i].value = "O"

\* A placement or a move went through: the clicked cell was empty, there was
\* no winner, and either a piece was selected or the player was placing.
ActionDone ==
  /\ Clicked /\ pre.winner = "" /\ TargetBefore = ""
  /\ (pre.selectedCell # null \/ cur(pre).count < 3)

\* C6: X starts; a click changes the active player exactly when it places or
\* moves a piece without producing a winner; selections and ignored clicks
\* keep the active player, and so does every click after a win.
C6_TurnsAlternate ==
  /\ op.name \in {"new", "resetGame"} => cur(State).symbol = "X"
  /\ cur(State).symbol = (IF currentPlayer = "xPlayer" THEN "X" ELSE "O")
  /\ Clicked =>
       (currentPlayer # pre.currentPlayer <=> (ActionDone /\ winner = ""))
  /\ op.name = "onSelectPiece" => currentPlayer = pre.currentPlayer

\* A move without a winner passed the turn from O to X.
C6_Witness ==
  /\ ActionDone /\ pre.selectedCell # null /\ winner = ""
  /\ pre.currentPlayer = "oPlayer" /\ currentPlayer = "xPlayer"

\* C7: resetGame, in whatever state it is called, leaves exactly the initial
\* state.
C7_ResetRestoresInitial ==
  op.name = "resetGame" => State = InitState

\* resetGame was called while a cell was selected.
C7_Witness ==
  op.name = "resetGame" /\ pre.selectedCell # null

\* C8: a click handled while a cell is selected keeps the number of X cells,
\* the number of O cells and both placed-counts.
C8_MovePreservesPieces ==
  (Clicked /\ pre.selectedCell # null)
  => /\ CountOn(board, "X") = CountOn(pre.board, "X")
     /\ CountOn(board, "O") = CountOn(pre.board, "O")
     /\ xPlayer.count = pre.xPlayer.count
     /\ oPlayer.count = pre.oPlayer.count

\* A selected piece was moved.
C8_Witness ==
  Clicked /\ pre.selectedCell # null /\ board # pre.board

\* C9: with no winner, no selection and the active player's count at 3, a
\* click on a cell of the active player selects that cell and changes
\* nothing else; and once both counts are 3 no click adds a piece.
C9_MovementPhaseSelects ==
  /\ (Clicked /\ pre.winner = "" /\ pre.selectedCell = null
        /\ cur(pre).count = 3 /\ TargetBefore = cur(pre).symbol)
     => State = [pre EXCEPT !.selectedCell =
                              [row |-> op.row, col |-> op.col]]
  /\ (Clicked /\ pre.xPlayer.count = 3 /\ pre.oPlayer.count = 3)
     => /\ xPlayer.count = 3 /\ oPlayer.count = 3
        /\ CountOn(board, "") = CountOn(pre.board, "")

\* A player in the movement phase clicked an own piece off the diagonal.
C9_Witness ==
  /\ Clicked /\ pre.winner = "" /\ pre.selectedCell = null
  /\ cur(pre).count = 3 /\ TargetBefore = cur(pre).symbol
  /\ op.row # op.col

\* C10: a selected cell holds the active player's symbol.
C10_SelectedCellIsOwn ==
  selectedCell # null =>
    board[selectedCell.row][selectedCell.col].value = cur(State).symbol

\* O has a piece selected.
C10_Witness ==
  selectedCell # null /\ currentPlayer = "oPlayer"

\* A placement went through: no winner, no selection, the active player had
\* fewer than 3 pieces and the clicked cell was empty.
PlacementDone ==
  /\ Clicked /\ pre.winner = "" /\ pre.selectedCell = null
  /\ cur(pre).count < 3 /\ TargetBefore = ""

\* C11: in every step a player's placed-count stays the same, grows by
\* exactly 1 in a successful placement by that player, or is set to 0 by
\* resetGame; no click lowers it and no selection or movement click raises
\* it.
C11_CountSteps ==
  /\ op.name = "resetGame" => (xPlayer.count = 0 /\ oPlayer.count = 0)
  /\ Clicked =>
       /\ \/ xPlayer.count = pre.xPlayer.count
          \/ /\ xPlayer.count = pre.xPlayer.count + 1
             /\ PlacementDone /\ pre.currentPlayer = "xPlayer"
       /\ \/ oPlayer.count = pre.oPlayer.count
          \/ /\ oPlayer.count = pre.oPlayer.count + 1
             /\ PlacementDone /\ pre.currentPlayer = "oPlayer"
       /\ (pre.selectedCell # null \/ cur(pre).count >= 3)
            => /\ xPlayer.count = pre.xPlayer.count
               /\ oPlayer.count = pre.oPlayer.count
  /\ op.name = "onSelectPiece"
       => /\ xPlayer.count = pre.xPlayer.count
          /\ oPlayer.count = pre.oPlayer.count

\* X moved a piece in the movement phase.
C11_Witness ==
  /\ ActionDone /\ pre.selectedCell # null
  /\ pre.currentPlayer = "xPlayer" /\ xPlayer.count = 3

\* C12: a placement or move that completes a line of the acting player sets
\* winner to that player's symbol, sets a message naming the player and does
\* not switch the active player, so a winner is always the active player;
\* after X(0,0), O(1,1), X(0,1), O(1,0), X(0,2) the winner is X and row 0 is
\* X, X, X.
C12_WinnerIsActor ==
  /\ winner # "" => winner = cur(State).symbol
  /\ (ActionDone /\ HasLine(board, cur(pre).symbol))
     => /\ winner = cur(pre).symbol
        /\ currentPlayer = pre.currentPlayer
        /\ message = (IF cur(pre).symbol = "X" THEN "Player X wins!"
                                               ELSE "Player O wins!")
  /\ (/\ op = Call("onCellClick", 0, 2)
      /\ pre.currentPlayer = "xPlayer"
      /\ pre.selectedCell = null
      /\ pre.board = [EmptyBoard EXCEPT ![0][0].value = "X",
                                        ![0][1].value = "X",
                                        ![1][0].value = "O",
                                        ![1][1].value = "O"])
     => /\ winner = "X"
        /\ \A c \in Idx : board[0][c].value = "X"

\* The state after X(0,0), O(1,1), X(0,1), O(1,0), X(0,2).
C12_Witness ==
  /\ op = Call("onCellClick", 0, 2)
  /\ board = [EmptyBoard EXCEPT ![0][0].value = "X", ![0][1].value = "X",
                                ![0][2].value = "X", ![1][0].value = "O",
                                ![1][1].value = "O"]
  /\ winner = "X" /\ currentPlayer = "xPlayer"

\* C13: invalid clicks of the movement phase change nothing: with no cell
\* selected and the active count at 3, a click on an empty cell or on a cell
\* of the opponent; with a cell S selected, a click on a cell of the opponent
\* or on S itself.
C13_InvalidMovementClicks ==
  /\ (Clicked /\ pre.selectedCell = null /\ cur(pre).count = 3
        /\ TargetBefore # cur(pre).symbol) => State = pre
  /\ (Clicked /\ pre.selectedCell # null
        /\ \/ TargetBefore \notin {"", cur(pre).symbol}
           \/ pre.selectedCell = [row |-> op.row, col |-> op.col])
     => State = pre

\* In the movement phase, with nothing selected and no winner, a cell of the
\* opponent was clicked.
C13_Witness ==
  /\ Clicked /\ pre.winner = "" /\ pre.selectedCell = null
  /\ cur(pre).count = 3
  /\ TargetBefore \notin {"", cur(pre).symbol}

\* C14: in a state reached through onCellClick and resetGame alone, a cell
\* is selected only when the active player's count is 3 and no winner is
\* set.
C14_SelectionOnlyInMovement ==
  clicksOnly =>
    (selectedCell # null => (cur(State).count = 3 /\ winner = ""))

\* A click has just selected a piece, and only clicks and resets were made.
C14_Witness ==
  /\ clicksOnly
  /\ Clicked /\ pre.selectedCell = null /\ selectedCell # null
  /\ xPlayer.count = 3 /\ oPlayer.count = 3

\* The board after the piece on the selected cell of pre has been moved to
\* the clicked cell.
MovedBoard ==
  LET S == pre.selectedCell
      placed == [pre.board EXCEPT ![op.row][op.col].value = cur(pre).symbol]
  IN  [placed EXCEPT ![S.row][S.col].value = ""]

\* What a move leaves behind: the moved board, no selection, a winner
\* exactly when the moved board has a complete line, and the other player
\* active exactly when there is no winner.
MoveOutcome ==
  /\ board = MovedBoard
  /\ selectedCell = null
  /\ winner # "" <=> \E v \in {"X", "O"} : HasLine(MovedBoard, v)
  /\ currentPlayer # pre.currentPlayer <=> winner = ""

\* C15 as stated: with S selected, a click on an empty cell T moves the
\* piece: T holds the active player's symbol, S is empty, no other cell
\* changes, the selection is cleared, winner is set exactly when the new
\* board has a complete line, and the active player switches exactly when
\* there is no winner.
C15_Original ==
  (Clicked /\ pre.selectedCell # null /\ TargetBefore = "") => MoveOutcome

\* C15, amended: with S selected and no winner set, a click on an empty cell
\* T moves the piece as stated.
C15_MoveEffect ==
  (Clicked /\ pre.winner = "" /\ pre.selectedCell # null
     /\ TargetBefore = "") => MoveOutcome

\* With both players at 3 pieces, X moved from (0,0) to (1,2) and the turn
\* passed to O.
C15_Witness ==
  /\ op = Call("onCellClick", 1, 2)
  /\ pre.selectedCell = [row |-> 0, col |-> 0]
  /\ pre.currentPlayer = "xPlayer" /\ currentPlayer = "oPlayer"
  /\ board[0][0].value = "" /\ board[1][2].value = "X"

\* C16 as stated: with S selected, a click on another cell of the active
\* player makes that cell the selection and changes nothing else.
C16_Original ==
  (Clicked /\ pre.selectedCell # null /\ TargetBefore = cur(pre).symbol
     /\ pre.selectedCell # [row |-> op.row, col |-> op.col])
  => State = [pre EXCEPT !.selectedCell = [row |-> op.row, col |-> op.col]]

\* C16, amended: with S selected and no winner set, a click on another cell
\* of the active player makes that cell the selection and changes nothing
\* else.
C16_Reselect ==
  (Clicked /\ pre.winner = "" /\ pre.selectedCell # null
     /\ TargetBefore = cur(pre).symbol
     /\ pre.selectedCell # [row |-> op.row, col |-> op.col])
  => State = [pre EXCEPT !.selectedCell = [row |-> op.row, col |-> op.col]]

\* O changed the selection from one piece to another.
C16_Witness ==
  /\ Clicked /\ pre.selectedCell # null /\ selectedCell # null
  /\ selectedCell # pre.selectedCell /\ currentPlayer = "oPlayer"

\* C17: the board never holds a complete line of X and a complete line of O
\* at once, so all winning triples that checkWinner could meet carry the
\* same symbol and the scan order does not decide the winner.
C17_OneWinnerOnly ==
  /\ ~ (HasLine(board, "X") /\ HasLine(board, "O"))
  /\ \A i, j \in 1..8 :
       (lineWins(getLines(State)[i]) /\ lineWins(getLines(State)[j]))
         => getLines(State)[i][1] = getLines(State)[j][1]

\* X has completed a row while O holds two cells of another row.
C17_Witness ==
  /\ winner = "X"
  /\ \E r1, r2 \in Idx :
       /\ r1 # r2
       /\ \A c \in Idx : board[r1][c].value = "X"
       /\ Cardinality({c \in Idx : board[r2][c].value = "O"}) = 2

\* C18: the message is empty exactly when winner is empty, it is
\* "Player s wins!" when winner is s, and a placement or move that completes
\* no line leaves it as it was.
C18_MessageOnlyOnWin ==
  /\ message = "" <=> winner = ""
  /\ winner = "X" => message = "Player X wins!"
  /\ winner = "O" => message = "Player O wins!"
  /\ (ActionDone /\ winner = "") => message = pre.message

\* O has won by moving a piece.
C18_Witness ==
  /\ ActionDone /\ pre.selectedCell # null
  /\ winner = "O" /\ message = "Player O wins!"

\* C19: the number of X cells equals xPlayer.count and the number of O cells
\* equals oPlayer.count, so at most 6 cells are occupied and at least 3 are
\* empty.
C19_CountsMatchBoard ==
  /\ CountOn(board, "X") = xPlayer.count
  /\ CountOn(board, "O") = oPlayer.count
  /\ CountOn(board, "X") + CountOn(board, "O") <= 6
  /\ CountOn(board, "") >= 3

\* resetGame was called with six pieces on the board.
C19_Witness ==
  /\ op.name = "resetGame"
  /\ pre.xPlayer.count = 3 /\ pre.oPlayer.count = 3

\* onCellClick(r, c) in state s places or moves a piece of the player active
\* in s onto the empty cell (r, c).
Acts(s, r, c) ==
  /\ s.board[r][c].value = ""
  /\ onCellClick(s, r, c).board[r][c].value = cur(s).symbol

\* C20: without a winner some click changes the state and brings, with at
\* most one more click, a placement or move of the active player; there is
\* always an empty cell, and in the movement phase the active player has a
\* piece to select.
C20_NoStalemate ==
  winner = "" =>
    /\ \E r \in Idx, c \in Idx :
         LET s1 == onCellClick(State, r, c)
         IN  /\ s1 # State
             /\ \/ Acts(State, r, c)
                \/ /\ s1.currentPlayer = currentPlayer
                   /\ \E r2 \in Idx, c2 \in Idx : Acts(s1, r2, c2)
    /\ CountOn(board, "") >= 1
    /\ cur(State).count = 3 => CountOn(board, cur(State).symbol) >= 1

\* The movement phase with nothing selected: two clicks are needed.
C20_Witness ==
  /\ winner = "" /\ selectedCell = null
  /\ cur(State).count = 3 /\ op.name = "onCellClick"
====
